---- MODULE Spec2Model ----
(***************************************************************************)
(* starred-watcher.js: the synchronisation engine of the starred-lifelog   *)
(* watcher.  The model follows the JavaScript control flow between await   *)
(* points: an action is "the awaited call resolves (with its effect on the *)
(* store or its answer from a remote service), then the code runs up to    *)
(* the next await".  Every asynchronous function that is running is a      *)
(* task; main() awaits the full backfill and the first incremental scan,   *)
(* the scans started by setInterval are not awaited by anybody.            *)
(***************************************************************************)
EXTENDS Integers, Sequences, FiniteSets, TLC

(* ------------------------------ bounds --------------------------------- *)
\* Highest updatedAt the source hands out (versions are 1..MaxVersion).
MaxVersion == 2
\* Failing remote calls (page fetch, scoring call, primary send) per behaviour.
MaxFailures == 1
\* The per-(id, version) send counters saturate here.
CountCap == 2
\* SQL statements run against the statement-level table per behaviour.
MaxStatements == 3

(* ------------------------- program constants --------------------------- *)
\* JavaScript null / SQL NULL in a version, status or cursor position.
NULL == 0
\* fullBackfill: do { ... } while (cursor && pages < 1000)
BACKFILL_PAGE_CEILING == 1000
\* incrementalScan: if (pages >= 3) { early-stop heuristic }
EARLY_STOP_MIN_PAGES == 3
\* fetchWithRetry(url, opts, max=3)
FETCH_MAX_ATTEMPTS == 3

\* Record ids of the source collection.
Ids == {1, 2, 3, 4}
Versions == 1..MaxVersion
\* Status codes the primary sink answers with.
SinkStatuses == {200, 500}
\* Status codes the source answers a page request with.
SourceStatuses == {200, 404, 429, 500}
\* analysis_json: SQL NULL, or the stored JSON of an analysis object
\* without / with a non-empty summary field.
NoAnalysis == "null"
Analyses == {"noSummary", "withSummary"}
\* Where an async function runs: slot 1 is what main() awaits and, once
\* setInterval is armed, a scan of the timer; slot 2 is a scan the timer starts
\* while the one before it is still running.
Slots == {1, 2}

VARIABLES
  remote,     \* the remote services: the source's listing, the scoring service's answers
  env,        \* process.env as parsed at lines 8-17
  lifelogs,   \* table lifelogs: id -> row
  kv,         \* table kv: the value stored under 'backfill_done'
  mainPc,     \* where main() is
  tasks,      \* slot -> the async function running there
  nfail,      \* failed remote calls so far
  attempts,   \* history: id -> version -> primary sends started
  answers,    \* history: id -> version -> primary sends answered with a status
  call,       \* one call of fetchWithRetry, request by request
  table,      \* table lifelogs with all its columns, statement by statement
  check       \* the end of one page of incrementalScan, on a page of up to 10 records

\* The variables of the synchronisation engine.
engineVars == <<remote, env, lifelogs, kv, mainPc, tasks, nfail,
                attempts, answers>>

vars == <<remote, env, lifelogs, kv, mainPc, tasks, nfail,
          attempts, answers, call, table, check>>

(* ------------------------------ the store ------------------------------ *)
\* A row of table lifelogs; present = FALSE stands for "no such row".
NoRow == [present |-> FALSE, id |-> NULL, updatedAt |-> NULL, isStarred |-> 0,
          analysis_json |-> NoAnalysis, webhook_last_updatedAt |-> NULL,
          webhook_status |-> NULL, webhook_sent_at |-> NULL]

\* findById(id): SELECT * FROM lifelogs WHERE id=?
findById(id) == lifelogs[id]

\* lifelogToRow(l): the four derived/bookkeeping columns are always null.
lifelogToRow(l) ==
  [present |-> TRUE, id |-> l.id, updatedAt |-> l.updatedAt,
   isStarred |-> IF l.isStarred THEN 1 ELSE 0,
   analysis_json |-> NoAnalysis, webhook_last_updatedAt |-> NULL,
   webhook_status |-> NULL, webhook_sent_at |-> NULL]

\* The column is set to excluded.x as it comes, null or not.
Overwrite(new, old, null) == new

\* COALESCE(excluded.x, lifelogs.x)
COALESCE(new, old, null) == IF new # null THEN new ELSE old

\* INSERT OR REPLACE: the row is replaced as a whole.
upsertReplacing(old, row) == row

\* An upsert whose DO UPDATE SET leaves updatedAt out: a known row keeps its version.
upsertKeepingVersion(old, row) ==
  IF ~old.present THEN row
  ELSE [present |-> TRUE, id |-> old.id,
        updatedAt |-> old.updatedAt,
        isStarred |-> row.isStarred,
        analysis_json |-> COALESCE(row.analysis_json, old.analysis_json, NoAnalysis),
        webhook_last_updatedAt |->
            COALESCE(row.webhook_last_updatedAt, old.webhook_last_updatedAt, NULL),
        webhook_status |-> COALESCE(row.webhook_status, old.webhook_status, NULL),
        webhook_sent_at |-> COALESCE(row.webhook_sent_at, old.webhook_sent_at, NULL)]

\* upsertLifelog(row): INSERT ... ON CONFLICT(id) DO UPDATE SET ...
upsertLifelog(old, row) ==
  IF ~old.present THEN row
  ELSE [present |-> TRUE, id |-> old.id,
        updatedAt |-> row.updatedAt,
        isStarred |-> row.isStarred,
        analysis_json |-> COALESCE(row.analysis_json, old.analysis_json, NoAnalysis),
        webhook_last_updatedAt |->
            COALESCE(row.webhook_last_updatedAt, old.webhook_last_updatedAt, NULL),
        webhook_status |-> COALESCE(row.webhook_status, old.webhook_status, NULL),
        webhook_sent_at |-> COALESCE(row.webhook_sent_at, old.webhook_sent_at, NULL)]

\* datetime('now'): some timestamp, all that is kept of it is that it is not NULL.
Now == 1

\* markWebhook(updatedAt, status, id): UPDATE ... WHERE id=?  (no row: no effect).
markWebhook(old, updatedAt, status) ==
  IF ~old.present THEN old
  ELSE [old EXCEPT !.webhook_last_updatedAt = updatedAt,
                   !.webhook_status = status,
                   !.webhook_sent_at = Now]

\* setAnalysis(analysisJson, id): UPDATE lifelogs SET analysis_json=? WHERE id=?
setAnalysis(old, analysisJson) ==
  IF ~old.present THEN old ELSE [old EXCEPT !.analysis_json = analysisJson]

(* ------------------------- the remote services ------------------------ *)
\* One record of a page of the listing, as lifelogs[k] of pageStarred's result.
Lifelog(id) == [id |-> id, updatedAt |-> remote.updatedAt[id],
                isStarred |-> remote.flag[id]]

\* fetchWithRetry(url, opts, max): resp[i+1] is the status the source answers
\* attempt i with.  "ok" when a response is returned, else the error thrown.
RECURSIVE fetchLoop(_, _)
fetchLoop(resp, i) ==
  IF i >= FETCH_MAX_ATTEMPTS THEN "fetchWithRetry exhausted"
  ELSE LET status == resp[i + 1] IN
       IF status = 429 THEN fetchLoop(resp, i + 1)
       ELSE IF status >= 200 /\ status <= 299 THEN "ok"
       ELSE IF status >= 500 /\ i < FETCH_MAX_ATTEMPTS - 1 THEN fetchLoop(resp, i + 1)
       ELSE "HTTP"

fetchWithRetry(resp) == fetchLoop(resp, 0)

\* What one call of fetchWithRetry can end in, over all answers of the source.
FetchOutcomes ==
  {fetchWithRetry(resp) : resp \in [1..FETCH_MAX_ATTEMPTS -> SourceStatuses]}

\* isStarred: 'true' of the query: the listing holds the starred records only.
IsStarredAtSource(id) == remote.isStarred[id]

\* pageStarred(cursor, 10): the page the cursor points at and the next cursor.
\* Cursor p is "page p"; no cursor asks for page 1.  An endless source keeps
\* answering with an empty page and a non-null cursor after its last page.
pageStarred(cursor) ==
  LET p == IF cursor = NULL THEN 1 ELSE cursor
      n == Len(remote.pages)
      starred == IF p <= n THEN SelectSeq(remote.pages[p], IsStarredAtSource)
                 ELSE <<>>
  IN [lifelogs |-> [k \in 1..Len(starred) |-> Lifelog(starred[k])],
      nextCursor |-> IF p < n THEN p + 1
                     ELSE IF remote.endless THEN n + 1 ELSE NULL]

(* ------------------------------- tasks --------------------------------- *)
\* What the code reads of c2 once postWebhook has been called.
NoC2 == [id |-> NULL, updatedAt |-> NULL, analysis_json |-> NoAnalysis]

\* The body posted to the primary sink (the fields the model keeps).
NoPayload == [lifelogId |-> NULL, updatedAt |-> NULL, analysis |-> NoAnalysis]

\* postWebhook({ source, lifelogId: c2.id, ..., updatedAt: c2.updatedAt, ..., analysis, ... })
Payload(c2) == [lifelogId |-> c2.id, updatedAt |-> c2.updatedAt,
                analysis |-> c2.analysis_json]

Idle == [kind |-> "idle", pc |-> "idle", awaited |-> FALSE, afterBackfill |-> FALSE,
         cursor |-> NULL, pages |-> 0, lifelogs |-> <<>>, idx |-> 0,
         analysis |-> NoAnalysis, c2 |-> NoC2, payload |-> NoPayload,
         status |-> NULL, sent |-> 0, err |-> "", caught |-> "", reconciled |-> "",
         stable |-> TRUE]

Running(tk) == tk.pc \notin {"idle", "done", "failed"}

\* The record the for loop of the task is at.
Cur(tk) == tk.lifelogs[tk.idx]

\* Locals of the loop body go out of scope.
DropLocals(tk) == [tk EXCEPT !.analysis = NoAnalysis, !.c2 = NoC2,
                             !.payload = NoPayload, !.status = NULL,
                             !.caught = "", !.reconciled = ""]

\* The function returns.  What main() awaits stays in its slot until main goes
\* on; the promise of a scan started by the timer is dropped.
Finished(tk) ==
  IF tk.awaited
  THEN [DropLocals(tk) EXCEPT !.pc = "done", !.lifelogs = <<>>, !.idx = 0,
                              !.cursor = NULL]
  ELSE Idle

\* The function throws.  main().catch sees what main() awaited; the timer's
\* .catch(e => console.error('scan error', e)) logs and drops the rest.
Thrown(tk, msg) ==
  IF tk.awaited
  THEN [DropLocals(tk) EXCEPT !.pc = "failed", !.err = msg, !.lifelogs = <<>>,
                              !.idx = 0, !.cursor = NULL, !.pages = 0]
  ELSE Idle

\* A scan loop with no page limit: while (true).
ScanLoopHeadUnbounded(tk) ==
  [DropLocals(tk) EXCEPT !.pages = @ + 1, !.pc = "fetch", !.lifelogs = <<>>, !.idx = 0]

\* incrementalScan: while (pages < maxPages) { pages++; await pageStarred(cursor) ...
ScanLoopHead(tk) ==
  IF tk.pages < env.MAX_PAGES_PER_RUN
  THEN [DropLocals(tk) EXCEPT !.pages = @ + 1, !.pc = "fetch", !.lifelogs = <<>>, !.idx = 0]
  ELSE Finished(tk)

\* incrementalScan, end of the loop body: if (!cursor) break;
ScanAfterEarlyStop(tk) == IF tk.cursor = NULL THEN Finished(tk) ELSE ScanLoopHead(tk)

\* if (pages >= 3) { ... }
HeuristicApplies(pages) == pages >= EARLY_STOP_MIN_PAGES

\* The page's for loop is over.  fullBackfill: while (cursor && pages < 1000),
\* then kvSet.  incrementalScan: the early-stop check from page 3 on.
PageEnd(tk) ==
  IF tk.kind = "backfill"
  THEN IF tk.cursor # NULL /\ tk.pages < BACKFILL_PAGE_CEILING
       THEN [DropLocals(tk) EXCEPT !.pages = @ + 1, !.pc = "fetch",
                                   !.lifelogs = <<>>, !.idx = 0]
       ELSE [DropLocals(tk) EXCEPT !.pc = "kvSet", !.lifelogs = <<>>, !.idx = 0]
  ELSE IF HeuristicApplies(tk.pages)
       THEN [DropLocals(tk) EXCEPT !.pc = "upToDate"]
       ELSE ScanAfterEarlyStop(tk)

\* for (const l of lifelogs): on to the next record, or out of the loop.
NextRecord(tk) ==
  IF tk.idx < Len(tk.lifelogs)
  THEN [DropLocals(tk) EXCEPT !.idx = @ + 1, !.pc = "existing"]
  ELSE PageEnd(tk)

\* catch (e) { console.warn(...) } of the record's try blocks: what was logged.
Caught(tk, msg) == [tk EXCEPT !.caught = msg]

\* A backfill that goes on to read c2 whatever BACKFILL_SEND_WEBHOOK says.
AfterSentimentAlwaysDispatch(tk) == [tk EXCEPT !.pc = "c2", !.analysis = NoAnalysis]

\* After the sentiment block: fullBackfill dispatches only under
\* BACKFILL_SEND_WEBHOOK, incrementalScan always reads c2 and decides.
AfterSentiment(tk) ==
  IF tk.kind = "scan" \/ env.BACKFILL_SEND_WEBHOOK
  THEN [tk EXCEPT !.pc = "c2", !.analysis = NoAnalysis]
  ELSE NextRecord(tk)

NewBackfill == [Idle EXCEPT !.kind = "backfill", !.awaited = TRUE,
                            !.pages = 1, !.pc = "fetch"]

NewScan(awaited, afterBackfill) ==
  ScanLoopHead([Idle EXCEPT !.kind = "scan", !.awaited = awaited,
                            !.afterBackfill = afterBackfill])

(* ------------------------- history bookkeeping ------------------------- *)
Bump(count, id, version) ==
  IF version \in Versions
  THEN [count EXCEPT ![id][version] = IF @ < CountCap THEN @ + 1 ELSE @]
  ELSE count

(* --------------------- steps of a scan or a backfill -------------------- *)
\* await pageStarred(cursor, 10) resolves or throws; cursor = nextCursor;
\* incrementalScan: if (!lifelogs.length) break;
FetchPage(t) ==
  /\ tasks[t].pc = "fetch"
  /\ \E outcome \in FetchOutcomes :
       LET tk == tasks[t]
           page == pageStarred(tk.cursor)
           got == [tk EXCEPT !.lifelogs = page.lifelogs, !.cursor = page.nextCursor]
       IN IF outcome = "ok"
          THEN /\ tasks' = [tasks EXCEPT ![t] =
                    IF Len(page.lifelogs) = 0
                    THEN IF tk.kind = "scan" THEN Finished(got) ELSE PageEnd(got)
                    ELSE [got EXCEPT !.idx = 1, !.pc = "existing"]]
               /\ nfail' = nfail
          ELSE /\ nfail < MaxFailures
               /\ tasks' = [tasks EXCEPT ![t] = Thrown(tk, outcome)]
               /\ nfail' = nfail + 1
  /\ UNCHANGED <<remote, env, lifelogs, kv, mainPc, attempts, answers,
                 call, table, check>>

\* A reconciler that compares the version only.
ReconcileByVersion(existing, l) ==
  IF ~existing.present THEN "insert"
  ELSE IF existing.updatedAt # l.updatedAt THEN "update"
  ELSE "touch"

\* The reconciler's choice: insert, update or touch (last_seen_at only).
Reconcile(existing, l) ==
  IF ~existing.present THEN "insert"
  ELSE IF existing.updatedAt # l.updatedAt
          \/ existing.isStarred # (IF l.isStarred THEN 1 ELSE 0) THEN "update"
  ELSE "touch"

\* const existing = await findById(l.id); const row = lifelogToRow(l);
\* then upsertLifelog(row) or the UPDATE of last_seen_at is called.
FindExisting(t) ==
  /\ tasks[t].pc = "existing"
  /\ LET tk == tasks[t]
         choice == Reconcile(findById(Cur(tk).id), Cur(tk))
     IN tasks' = [tasks EXCEPT ![t] =
          [tk EXCEPT !.reconciled = choice,
                     !.pc = IF choice = "touch" THEN "touch" ELSE "upsertLifelog"]]
  /\ UNCHANGED <<remote, env, lifelogs, kv, mainPc, nfail, attempts, answers,
                 call, table, check>>

\* await upsertLifelog(row)
UpsertLifelog(t) ==
  /\ tasks[t].pc = "upsertLifelog"
  /\ LET l == Cur(tasks[t])
     IN lifelogs' = [lifelogs EXCEPT ![l.id] = upsertLifelog(@, lifelogToRow(l))]
  /\ tasks' = [tasks EXCEPT ![t] = [@ EXCEPT !.pc = "current"]]
  /\ UNCHANGED <<remote, env, kv, mainPc, nfail, attempts, answers,
                 call, table, check>>

\* await db.run(`UPDATE lifelogs SET last_seen_at=datetime('now') WHERE id=?`)
\* (last_seen_at is not among the modelled columns).
Touch(t) ==
  /\ tasks[t].pc = "touch"
  /\ tasks' = [tasks EXCEPT ![t] = [@ EXCEPT !.pc = "current"]]
  /\ UNCHANGED <<remote, env, lifelogs, kv, mainPc, nfail, attempts, answers,
                 call, table, check>>

\* const current = await findById(l.id); if (!current.analysis_json) callOpenAI(...)
FindCurrent(t) ==
  /\ tasks[t].pc = "current"
  /\ LET tk == tasks[t]
         current == findById(Cur(tk).id)
     IN tasks' = [tasks EXCEPT ![t] =
          IF current.analysis_json = NoAnalysis THEN [tk EXCEPT !.pc = "callOpenAI"]
          ELSE AfterSentiment(tk)]
  /\ UNCHANGED <<remote, env, lifelogs, kv, mainPc, nfail,
                 attempts, answers,
                 call, table, check>>

\* A scoring call outside any try block: its failure leaves the function.
CallOpenAIUncaught(t) ==
  /\ tasks[t].pc = "callOpenAI"
  /\ \/ /\ tasks' = [tasks EXCEPT ![t] =
               [@ EXCEPT !.analysis = remote.analysis[Cur(tasks[t]).id],
                         !.pc = "setAnalysis"]]
        /\ nfail' = nfail
     \/ /\ nfail < MaxFailures
        /\ tasks' = [tasks EXCEPT ![t] = Thrown(@, "OpenAI")]
        /\ nfail' = nfail + 1
  /\ UNCHANGED <<remote, env, lifelogs, kv, mainPc, attempts, answers,
                 call, table, check>>

\* await callOpenAI(...) returns the analysis of the record's text (the scoring
\* service is a function of the text), or throws and the catch logs it.
CallOpenAI(t) ==
  /\ tasks[t].pc = "callOpenAI"
  /\ \/ /\ tasks' = [tasks EXCEPT ![t] =
               [@ EXCEPT !.analysis = remote.analysis[Cur(tasks[t]).id],
                         !.pc = "setAnalysis"]]
        /\ nfail' = nfail
     \/ /\ nfail < MaxFailures
        /\ tasks' = [tasks EXCEPT ![t] = AfterSentiment(Caught(@, "OpenAI sentiment failed"))]
        /\ nfail' = nfail + 1
  /\ UNCHANGED <<remote, env, lifelogs, kv, mainPc, attempts, answers,
                 call, table, check>>

\* await setAnalysis(JSON.stringify(analysis), l.id)
SetAnalysis(t) ==
  /\ tasks[t].pc = "setAnalysis"
  /\ LET tk == tasks[t]
     IN /\ lifelogs' = [lifelogs EXCEPT ![Cur(tk).id] = setAnalysis(@, tk.analysis)]
        /\ tasks' = [tasks EXCEPT ![t] = AfterSentiment(tk)]
  /\ UNCHANGED <<remote, env, kv, mainPc, nfail, attempts, answers,
                 call, table, check>>

\* A dispatcher that also sends again whatever the sink did not accept.
EligibleUnlessDelivered(c2) ==
  c2.webhook_last_updatedAt # c2.updatedAt \/ c2.webhook_status # 200

\* if (c2.webhook_last_updatedAt !== c2.updatedAt)
Eligible(c2) == c2.webhook_last_updatedAt # c2.updatedAt

\* const c2 = await findById(l.id); when eligible the payload is built from c2
\* and postWebhook(payload) is called.
FindC2(t) ==
  /\ tasks[t].pc = "c2"
  /\ LET tk == tasks[t]
         c2 == findById(Cur(tk).id)
     IN IF Eligible(c2)
        THEN /\ tasks' = [tasks EXCEPT ![t] =
                  [tk EXCEPT !.c2 = [id |-> c2.id, updatedAt |-> c2.updatedAt,
                                     analysis_json |-> c2.analysis_json],
                             !.payload = Payload(c2),
                             !.pc = "postWebhook"]]
             /\ attempts' = Bump(attempts, c2.id, c2.updatedAt)
        ELSE /\ tasks' = [tasks EXCEPT ![t] = NextRecord(tk)]
             /\ attempts' = attempts
  /\ UNCHANGED <<remote, env, lifelogs, kv, mainPc, nfail, answers,
                 call, table, check>>

\* if (WEBHOOK_URL_2 && analysis?.summary)
WantsSecondary(c2) == env.WEBHOOK_URL_2 /\ c2.analysis_json = "withSummary"

\* const status = await postWebhook(payload): the sink's status code, or fetch
\* rejects (no response) and the exception leaves the function.
PostWebhook(t) ==
  /\ tasks[t].pc = "postWebhook"
  /\ LET tk == tasks[t]
     IN \/ /\ \E status \in SinkStatuses :
                tasks' = [tasks EXCEPT ![t] =
                   [tk EXCEPT !.status = status,
                              !.pc = IF WantsSecondary(tk.c2)
                                     THEN "createChatGPTSummary" ELSE "markWebhook"]]
           /\ answers' = Bump(answers, tk.c2.id, tk.c2.updatedAt)
           /\ nfail' = nfail
        \/ /\ nfail < MaxFailures
           /\ tasks' = [tasks EXCEPT ![t] = Thrown(tk, "postWebhook")]
           /\ answers' = answers
           /\ nfail' = nfail + 1
  /\ UNCHANGED <<remote, env, lifelogs, kv, mainPc, attempts,
                 call, table, check>>

\* await createChatGPTSummary(...): a summary, or null (its own catch, or an
\* empty completion); if (chatGPTSummary) postWebhook2(...)
CreateChatGPTSummary(t) ==
  /\ tasks[t].pc = "createChatGPTSummary"
  /\ \E summary \in {"null", "text"} :
       tasks' = [tasks EXCEPT ![t] =
          [@ EXCEPT !.pc = IF summary # "null" THEN "postWebhook2" ELSE "markWebhook"]]
  /\ UNCHANGED <<remote, env, lifelogs, kv, mainPc, nfail,
                 attempts, answers,
                 call, table, check>>

\* A secondary send outside any try block: its failure leaves the function.
PostWebhook2Uncaught(t) ==
  /\ tasks[t].pc = "postWebhook2"
  /\ \/ /\ tasks' = [tasks EXCEPT ![t] = [@ EXCEPT !.pc = "markWebhook"]]
        /\ nfail' = nfail
     \/ /\ nfail < MaxFailures
        /\ tasks' = [tasks EXCEPT ![t] = Thrown(@, "postWebhook2")]
        /\ nfail' = nfail + 1
  /\ UNCHANGED <<remote, env, lifelogs, kv, mainPc,
                 attempts, answers,
                 call, table, check>>

\* await postWebhook2(...): answered, or it throws and the catch logs it.
PostWebhook2(t) ==
  /\ tasks[t].pc = "postWebhook2"
  /\ \/ /\ tasks' = [tasks EXCEPT ![t] = [@ EXCEPT !.pc = "markWebhook"]]
        /\ nfail' = nfail
     \/ /\ nfail < MaxFailures
        /\ tasks' = [tasks EXCEPT ![t] =
               [Caught(tasks[t], "Second webhook failed") EXCEPT !.pc = "markWebhook"]]
        /\ nfail' = nfail + 1
  /\ UNCHANGED <<remote, env, lifelogs, kv, mainPc,
                 attempts, answers,
                 call, table, check>>

\* markWebhook called with the version the row holds by the time of the mark.
MarkVersionOfRow(tk) == findById(tk.c2.id).updatedAt

\* The version markWebhook is called with.
MarkVersion(tk) == tk.c2.updatedAt

\* await markWebhook(c2.updatedAt, status, c2.id); sent++;
MarkWebhook(t) ==
  /\ tasks[t].pc = "markWebhook"
  /\ LET tk == tasks[t]
     IN /\ lifelogs' = [lifelogs EXCEPT ![tk.c2.id] =
                           markWebhook(@, MarkVersion(tk), tk.status)]
        /\ tasks' = [tasks EXCEPT ![t] = NextRecord([tk EXCEPT !.sent = @ + 1])]
  /\ UNCHANGED <<remote, env, kv, mainPc, nfail, attempts, answers,
                 call, table, check>>

\* A heuristic that never finds a record up to date.
UpToDateNever(r, l) == FALSE

\* r && r.updatedAt === l.updatedAt && r.webhook_last_updatedAt === r.updatedAt
\*   && r.analysis_json
UpToDate(r, l) ==
  /\ r.present
  /\ r.updatedAt = l.updatedAt
  /\ r.webhook_last_updatedAt = r.updatedAt
  /\ r.analysis_json # NoAnalysis

\* upToDate.filter(Boolean).length
UpToDateCount(page) ==
  Cardinality({k \in 1..Len(page) : UpToDate(findById(page[k].id), page[k])})

\* A threshold that 80% does not meet.
EarlyStopFiresAbove(upToDateCount, length) == 10 * upToDateCount > 8 * length

\* upToDateCount / lifelogs.length >= 0.8 (both are integers up to the page
\* size; the quotient of 4/5 and 8/10 is the double 0.8 itself)
EarlyStopFires(upToDateCount, length) == 10 * upToDateCount >= 8 * length

\* if (upToDateCount / lifelogs.length >= 0.8) break;
EarlyStop(t) ==
  /\ tasks[t].pc = "upToDate"
  /\ LET tk == tasks[t]
     IN tasks' = [tasks EXCEPT ![t] =
          IF EarlyStopFires(UpToDateCount(tk.lifelogs), Len(tk.lifelogs))
          THEN Finished(tk) ELSE ScanAfterEarlyStop(tk)]
  /\ UNCHANGED <<remote, env, lifelogs, kv, mainPc, nfail,
                 attempts, answers,
                 call, table, check>>

\* fullBackfill: await kvSet('backfill_done', '1')
KvSet(t) ==
  /\ tasks[t].pc = "kvSet"
  /\ kv' = "1"
  /\ tasks' = [tasks EXCEPT ![t] = Finished(@)]
  /\ UNCHANGED <<remote, env, lifelogs, mainPc, nfail,
                 attempts, answers,
                 call, table, check>>

TaskStep(t) ==
  \/ FetchPage(t)
  \/ FindExisting(t)
  \/ UpsertLifelog(t)
  \/ Touch(t)
  \/ FindCurrent(t)
  \/ CallOpenAI(t)
  \/ SetAnalysis(t)
  \/ FindC2(t)
  \/ PostWebhook(t)
  \/ CreateChatGPTSummary(t)
  \/ PostWebhook2(t)
  \/ MarkWebhook(t)
  \/ EarlyStop(t)
  \/ KvSet(t)

(* -------------------------------- main --------------------------------- *)
\* The task main() awaits runs in slot 1.
\* const backfilled = await kvGet('backfill_done');
\* if (!backfilled || backfilled.value !== '1') await fullBackfill();
\* otherwise straight on to await incrementalScan() (either branch of line 402).
MainStart ==
  /\ mainPc = "start"
  /\ IF kv # "1"
     THEN /\ mainPc' = "fullBackfill"
          /\ tasks' = [tasks EXCEPT ![1] = NewBackfill]
     ELSE /\ mainPc' = "incrementalScan"
          /\ tasks' = [tasks EXCEPT ![1] = NewScan(TRUE, FALSE)]
  /\ UNCHANGED <<remote, env, lifelogs, kv, nfail, attempts, answers,
                 call, table, check>>

\* A main() that is done once fullBackfill() has returned: it leaves the scan
\* to the next start or to the timer.
MainReturnsAfterBackfill ==
  /\ mainPc = "fullBackfill"
  /\ tasks[1].pc = "done"
  /\ mainPc' = IF env.POLL_SECONDS <= 0 THEN "exited" ELSE "setInterval"
  /\ tasks' = [tasks EXCEPT ![1] = Idle]
  /\ UNCHANGED <<remote, env, lifelogs, kv, nfail, attempts, answers,
                 call, table, check>>

\* fullBackfill() has returned: main goes on to await incrementalScan().
MainAfterBackfill ==
  /\ mainPc = "fullBackfill"
  /\ tasks[1].pc = "done"
  /\ mainPc' = "incrementalScan"
  /\ tasks' = [tasks EXCEPT ![1] = NewScan(TRUE, TRUE)]
  /\ UNCHANGED <<remote, env, lifelogs, kv, nfail, attempts, answers,
                 call, table, check>>

\* The awaited incrementalScan() has returned: POLL_SECONDS <= 0 returns from
\* main (the process ends), otherwise setInterval is armed.
MainAfterScan ==
  /\ mainPc = "incrementalScan"
  /\ tasks[1].pc = "done"
  /\ mainPc' = IF env.POLL_SECONDS <= 0 THEN "exited" ELSE "setInterval"
  /\ tasks' = [tasks EXCEPT ![1] = Idle]
  /\ UNCHANGED <<remote, env, lifelogs, kv, nfail,
                 attempts, answers,
                 call, table, check>>

\* main().catch(e => { console.error(e); process.exit(1); })
MainCatch ==
  /\ mainPc \in {"fullBackfill", "incrementalScan"}
  /\ tasks[1].pc = "failed"
  /\ mainPc' = "exited"
  /\ UNCHANGED <<remote, env, lifelogs, kv, tasks, nfail,
                 attempts, answers,
                 call, table, check>>

\* The slot a new scan takes: the lowest one whose function has returned.
FreeSlot == CHOOSE t \in Slots : ~Running(tasks[t]) /\ \A u \in Slots : u < t => Running(tasks[u])

\* setInterval(() => incrementalScan().catch(...), POLL_SECONDS*1000): the timer
\* fires whether or not an earlier scan is still running.
Tick ==
  /\ mainPc = "setInterval"
  /\ \E t \in Slots : ~Running(tasks[t])
  /\ tasks' = [tasks EXCEPT ![FreeSlot] = NewScan(FALSE, FALSE)]
  /\ UNCHANGED <<remote, env, lifelogs, kv, mainPc, nfail, attempts, answers,
                 call, table, check>>

(* ----------------------------- environment ----------------------------- *)
\* The process is started again after it has exited.  The store persists.
Restart ==
  /\ mainPc = "exited"
  /\ mainPc' = "start"
  /\ tasks' = [t \in Slots |-> Idle]
  /\ UNCHANGED <<remote, env, lifelogs, kv, nfail, attempts, answers,
                 call, table, check>>

\* The records the listing of the source holds.
SourceIds == {id \in UNION {{remote.pages[p][k] : k \in 1..Len(remote.pages[p])} :
                              p \in 1..Len(remote.pages)} : IsStarredAtSource(id)}

\* A record of the source is edited: its updatedAt moves on.  (History: what
\* main() awaits notes in `stable` that the source changed since it was entered.)
SourceUpdate ==
  /\ \E id \in SourceIds :
       /\ remote.updatedAt[id] < remote.lastVersion[id]
       /\ remote' = [remote EXCEPT !.updatedAt[id] = @ + 1]
  /\ tasks' = [t \in Slots |->
        IF tasks[t].awaited /\ (Running(tasks[t]) \/ tasks[t].pc = "done")
        THEN [tasks[t] EXCEPT !.stable = FALSE] ELSE tasks[t]]
  /\ UNCHANGED <<env, lifelogs, kv, mainPc, nfail, attempts, answers,
                 call, table, check>>

\* A record of the source that was not starred gets its star: the listing has
\* a new record from now on.
SourceStar ==
  /\ \E id \in remote.late :
       /\ ~remote.isStarred[id]
       /\ remote' = [remote EXCEPT !.isStarred[id] = TRUE]
  /\ tasks' = [t \in Slots |->
        IF tasks[t].awaited /\ (Running(tasks[t]) \/ tasks[t].pc = "done")
        THEN [tasks[t] EXCEPT !.stable = FALSE] ELSE tasks[t]]
  /\ UNCHANGED <<env, lifelogs, kv, mainPc, nfail, attempts, answers,
                 call, table, check>>

\* The isStarred field the source reports for a listed record changes.
SourceFlag ==
  /\ \E id \in remote.flagChanging :
       remote' = [remote EXCEPT !.flag[id] = ~@]
  /\ tasks' = [t \in Slots |->
        IF tasks[t].awaited /\ (Running(tasks[t]) \/ tasks[t].pc = "done")
        THEN [tasks[t] EXCEPT !.stable = FALSE] ELSE tasks[t]]
  /\ UNCHANGED <<env, lifelogs, kv, mainPc, nfail, attempts, answers,
                 call, table, check>>

(* --------------------------- specifications ---------------------------- *)
\* A source listing `pages`, whose records in `changing` are edited up to
\* version MaxVersion while the others stay at version 1; the scoring service
\* finds a summary for the records in `summarised`.  Every record is starred
\* from the start (`late` holds the ones that get their star later) and is
\* reported with isStarred true (`flagChanging` holds the ones whose reported
\* flag changes).
Remote(pages, endless, changing, summarised) ==
  [pages |-> pages, endless |-> endless,
   updatedAt |-> [id \in Ids |-> 1],
   isStarred |-> [id \in Ids |-> TRUE],
   late |-> {},
   flag |-> [id \in Ids |-> TRUE],
   flagChanging |-> {},
   lastVersion |-> [id \in Ids |-> IF id \in changing THEN MaxVersion ELSE 1],
   analysis |-> [id \in Ids |-> IF id \in summarised THEN "withSummary" ELSE "noSummary"]]

Env(poll, backfillSend, url2, maxPages) ==
  [POLL_SECONDS |-> poll, BACKFILL_SEND_WEBHOOK |-> backfillSend,
   WEBHOOK_URL_2 |-> url2, MAX_PAGES_PER_RUN |-> maxPages]

\* The deployments the model is run on: the remote side and a configuration.
Recurring ==
  [remote |-> Remote(<< <<1>> >>, FALSE, {1}, {}), env |-> Env(120, FALSE, FALSE, 2)]

OneShotPair ==
  [remote |-> Remote(<< <<1, 2>> >>, FALSE, {1}, {1}), env |-> Env(0, TRUE, TRUE, 2)]

OneShotThree ==
  [remote |-> Remote(<< <<1, 2, 3>> >>, FALSE, {}, {}), env |-> Env(0, FALSE, FALSE, 2)]

OneShotEndless ==
  [remote |-> Remote(<< <<1>> >>, TRUE, {}, {}), env |-> Env(0, FALSE, FALSE, 2)]

OneShotPaged ==
  [remote |-> Remote(<< <<1>>, <<2>>, <<3>>, <<4>> >>, FALSE, {4}, {}),
   env |-> Env(0, TRUE, FALSE, 4)]

\* The watcher runs before the one record of the source gets its star.
RecurringLate ==
  [remote |-> [Remote(<< <<1>> >>, FALSE, {}, {}) EXCEPT !.isStarred[1] = FALSE,
                                                       !.late = {1}],
   env |-> Env(120, FALSE, FALSE, 2)]

\* One record whose reported isStarred field comes and goes; every start
\* notifies, the backfill included.
OneShotFlag ==
  [remote |-> [Remote(<< <<1>> >>, FALSE, {}, {}) EXCEPT !.flagChanging = {1}],
   env |-> Env(0, TRUE, FALSE, 2)]

Deployments ==
  {Recurring, RecurringLate, OneShotPair, OneShotThree, OneShotEndless, OneShotPaged,
   OneShotFlag}

InitCommon ==
  /\ lifelogs = [id \in Ids |-> NoRow]
  /\ kv = ""
  /\ mainPc = "start"
  /\ tasks = [t \in Slots |-> Idle]
  /\ nfail = 0
  /\ attempts = [id \in Ids |-> [v \in Versions |-> 0]]
  /\ answers = [id \in Ids |-> [v \in Versions |-> 0]]

\* No call of fetchWithRetry is followed request by request.
NoCall == [pc |-> "none", responses |-> <<>>, i |-> 0, requests |-> 0,
           status |-> NULL, delays |-> <<>>, err |-> [kind |-> "", status |-> NULL]]

\* No page end is followed on its own.
NoCheck == [pc |-> "none", pages |-> 0, cursor |-> NULL, maxPages |-> 0,
            page |-> <<>>]

\* No statement-level table is kept.
NoTable == [rows |-> {}, clock |-> 0, op |-> "none", id |-> NULL, r |-> NULL,
            again |-> FALSE]

Init ==
  /\ \E d \in Deployments : remote = d.remote /\ env = d.env
  /\ InitCommon
  /\ call = NoCall
  /\ table = NoTable
  /\ check = NoCheck

Next ==
  \/ MainStart
  \/ MainAfterBackfill
  \/ MainAfterScan
  \/ MainCatch
  \/ Tick
  \/ Restart
  \/ SourceUpdate
  \/ SourceStar
  \/ SourceFlag
  \/ \E t \in Slots : TaskStep(t)

Spec == Init /\ [][Next]_vars

(* ------------------------------ properties ----------------------------- *)
\* The scans whose function has been entered and has not returned.
ScansInProgress == {t \in Slots : tasks[t].kind = "scan" /\ Running(tasks[t])}

\* C1: across any runs (restarts included), for every record id and every
\* updatedAt value stored for it, the primary sink is sent at most one
\* notification.  Counted here are the sends the sink answered, the ones it
\* certainly received.  (That a row whose webhook_last_updatedAt equals its
\* updatedAt is not dispatched is the guard Eligible of FindC2.)
C1_AtMostOneNotificationPerVersion ==
  \A id \in Ids : \A v \in Versions : answers[id][v] <= 1

\* C2: in recurring mode at most one incremental scan is in progress at any
\* time; a new scan starts only after the previous one has completed.
C2_AtMostOneScanInProgress ==
  Cardinality(ScansInProgress) <= 1

\* C3: when the primary send of an eligible record fails at network level, the
\* failure becomes an outcome code of its own (not a status the sink can
\* answer), markWebhook is still called for that version, and the scan goes on:
\* the step that resolves the send takes the function to the secondary path or
\* to markWebhook, with an outcome in hand.
C3_NetworkFailureIsMarked ==
  [][\A t \in Slots :
       (tasks[t].pc = "postWebhook" /\ tasks'[t].pc # "postWebhook"
          /\ nfail' = nfail + 1)
         => /\ tasks'[t].pc \in {"createChatGPTSummary", "markWebhook"}
            /\ tasks'[t].status # NULL
            /\ tasks'[t].status \notin SinkStatuses]_vars

\* C4: once the primary sink has answered a dispatch of a version with any
\* HTTP status, no scan sends that version of the record again: a send is only
\* ever started for a version the sink has not answered yet, and the mark that
\* follows an answer stores the dispatched version and the answered status.
C4_AnsweredVersionNeverSentAgain ==
  [][/\ \A id \in Ids : \A v \in Versions :
          attempts'[id][v] > attempts[id][v] => answers[id][v] = 0
     /\ \A t \in Slots :
          (tasks[t].pc = "markWebhook" /\ tasks'[t].pc # "markWebhook")
            => /\ lifelogs'[tasks[t].c2.id].webhook_last_updatedAt
                    = tasks[t].payload.updatedAt
               /\ lifelogs'[tasks[t].c2.id].webhook_status = tasks[t].status]_vars

\* C5: in every reachable state a row's webhook_last_updatedAt is null or a
\* value that was the row's stored updatedAt when a dispatch attempt for the
\* record was made (attempts counts exactly those), and markWebhook is called
\* with the updatedAt carried in the payload just sent.
C5_NotifiedVersionWasDispatched ==
  /\ \A id \in Ids :
       LET nv == lifelogs[id].webhook_last_updatedAt
       IN nv # NULL => nv \in Versions /\ attempts[id][nv] > 0
  /\ \A t \in Slots :
       tasks[t].pc \in {"createChatGPTSummary", "postWebhook2", "markWebhook"}
         => MarkVersion(tasks[t]) = tasks[t].payload.updatedAt

\* A row marked at version 1 by one dispatch while the stored updatedAt has
\* already moved on to version 2.
C5_Witness ==
  \E id \in Ids :
    /\ lifelogs[id].webhook_last_updatedAt = 1
    /\ lifelogs[id].updatedAt = 2
    /\ attempts[id][1] > 0
    /\ attempts[id][2] = 0

\* C6: backfill_done is set only when the traversal of fullBackfill ended
\* because the source's cursor was exhausted; at the ceiling of 1000 pages with
\* a cursor still in hand the flag stays unset.
C6_FlagOnlyWhenCursorExhausted ==
  [][(kv # "1" /\ kv' = "1")
       => \E t \in Slots : /\ tasks[t].kind = "backfill"
                           /\ tasks[t].pc = "kvSet"
                           /\ tasks[t].cursor = NULL]_vars

\* What main() does between a start and the end of the process.
MainStartsFromFlag ==
  (mainPc = "start" /\ mainPc' # "start")
    => /\ (kv # "1") <=> (mainPc' = "fullBackfill" /\ tasks'[1].kind = "backfill")
       /\ (kv = "1") <=> (mainPc' = "incrementalScan" /\ tasks'[1].kind = "scan")

\* A scan is entered by main() itself or, in recurring mode, by the timer.
ScanEntered(t) == tasks[t].kind # "scan" /\ tasks'[t].kind = "scan"

\* C7 (as the code has it): on a process start main() runs a full backfill if
\* and only if backfill_done is unset and otherwise an incremental scan; when a
\* full backfill has returned, an incremental scan follows at once in the same
\* start, in one-shot mode as in recurring mode (a backfill that throws ends the
\* process); every other scan is started by the timer, in recurring mode only.
C7_ScanFollowsBackfillAtOnce ==
  [][/\ MainStartsFromFlag
     /\ (mainPc = "fullBackfill" /\ mainPc' # "fullBackfill")
          => IF tasks[1].pc = "done"
             THEN /\ mainPc' = "incrementalScan"
                  /\ tasks'[1].kind = "scan"
                  /\ tasks'[1].afterBackfill
             ELSE mainPc' = "exited"
     /\ \A t \in Slots :
          ScanEntered(t) => \/ mainPc \in {"start", "fullBackfill"}
                            \/ mainPc = "setInterval" /\ env.POLL_SECONDS > 0]_vars

\* C7 (as stated): a full backfill if and only if backfill_done is unset,
\* otherwise an incremental scan; after a full backfill main() is idle again,
\* and a scan follows only in recurring mode from the timer, never at once in
\* the same start.
C7_IdleAfterBackfill ==
  [][/\ MainStartsFromFlag
     /\ (mainPc = "fullBackfill" /\ mainPc' # "fullBackfill")
          => /\ mainPc' \in {"exited", "setInterval"}
             /\ \A t \in Slots : tasks'[t].kind # "scan"
     /\ \A t \in Slots :
          ScanEntered(t) => \/ mainPc = "start"
                            \/ mainPc = "setInterval" /\ env.POLL_SECONDS > 0]_vars

\* A one-shot start in which the scan runs right after the backfill that has
\* just set the flag.
C7_Witness ==
  /\ env.POLL_SECONDS <= 0
  /\ mainPc = "incrementalScan"
  /\ kv = "1"
  /\ tasks[1].kind = "scan" /\ tasks[1].afterBackfill /\ Running(tasks[1])

NotifiedFields(r) == <<r.webhook_last_updatedAt, r.webhook_status, r.webhook_sent_at>>

DispatchPcs == {"postWebhook", "createChatGPTSummary", "postWebhook2", "markWebhook"}

SentimentPcs == {"current", "callOpenAI", "setAnalysis"}

\* C8: during a full backfill with BACKFILL_SEND_WEBHOOK disabled nothing is
\* sent to either sink and no row's webhook_last_updatedAt, webhook_status or
\* webhook_sent_at changes; with it enabled every record of the backfill passes
\* the eligibility check, is dispatched exactly when its
\* webhook_last_updatedAt differs from its updatedAt, and when the traversal
\* is over every record of the source is marked at its stored version.
C8_BackfillDispatchFollowsFlag ==
  /\ [][(mainPc = "fullBackfill" /\ ~env.BACKFILL_SEND_WEBHOOK)
          => /\ attempts' = attempts
             /\ answers' = answers
             /\ \A t \in Slots : tasks'[t].pc \notin DispatchPcs
             /\ \A id \in Ids :
                  NotifiedFields(lifelogs'[id]) = NotifiedFields(lifelogs[id])]_vars
  /\ [][\A t \in Slots :
          (tasks[t].kind = "backfill" /\ env.BACKFILL_SEND_WEBHOOK)
            => /\ (tasks[t].pc \in SentimentPcs /\ tasks'[t].pc \notin SentimentPcs)
                    => tasks'[t].pc = "c2"
               /\ (tasks[t].pc = "c2" /\ tasks'[t].pc # "c2")
                    => LET c2 == findById(Cur(tasks[t]).id)
                       IN IF c2.webhook_last_updatedAt # c2.updatedAt
                          THEN /\ tasks'[t].pc = "postWebhook"
                               /\ tasks'[t].payload.lifelogId = c2.id
                               /\ tasks'[t].payload.updatedAt = c2.updatedAt
                          ELSE tasks'[t].pc \notin DispatchPcs]_vars
  /\ [](\A t \in Slots :
          (tasks[t].kind = "backfill" /\ tasks[t].pc = "kvSet"
             /\ env.BACKFILL_SEND_WEBHOOK /\ ~remote.endless)
            => \A id \in SourceIds :
                 /\ lifelogs[id].present
                 /\ lifelogs[id].webhook_last_updatedAt = lifelogs[id].updatedAt
                 /\ attempts[id][lifelogs[id].updatedAt] > 0)

\* A backfill with the flag disabled that has stored three records and is
\* about to set backfill_done, no row notified.
C8_Witness ==
  /\ ~env.BACKFILL_SEND_WEBHOOK
  /\ mainPc = "fullBackfill"
  /\ tasks[1].kind = "backfill" /\ tasks[1].pc = "kvSet"
  /\ Cardinality(SourceIds) = 3
  /\ \A id \in SourceIds :
       lifelogs[id].present /\ lifelogs[id].webhook_last_updatedAt = NULL

\* The setting of C9: BACKFILL_SEND_WEBHOOK disabled, the records of the source
\* on one page, all starred from the start and still at version 1, and every
\* remote call answered so far.
UnchangedSource ==
  /\ ~env.BACKFILL_SEND_WEBHOOK
  /\ Len(remote.pages) = 1
  /\ remote.late = {}
  /\ remote.flagChanging = {}
  /\ \A id \in Ids : remote.updatedAt[id] = 1
  /\ nfail = 0

\* C9: with BACKFILL_SEND_WEBHOOK disabled and a source of N unchanged records
\* at version 1 (N = 3 in OneShotThree), the full backfill inserts and
\* annotates all N, sends nothing and sets backfill_done; the first incremental
\* scan afterwards sends exactly N notifications, one per record; every
\* further incremental scan sends 0.
C9_BackfillThenOneNotificationEach ==
  UnchangedSource =>
    \A t \in Slots :
      LET tk == tasks[t]
      IN /\ tk.kind = "backfill"
              => /\ tk.sent = 0
                 /\ tk.pc \in {"kvSet", "done"}
                      => \A id \in SourceIds :
                           /\ lifelogs[id].present
                           /\ lifelogs[id].analysis_json # NoAnalysis
                           /\ lifelogs[id].webhook_last_updatedAt = NULL
                           /\ \A v \in Versions : attempts[id][v] = 0
                 /\ tk.pc = "done" => kv = "1"
         /\ (tk.kind = "scan" /\ tk.afterBackfill /\ tk.pc = "done")
              => /\ tk.sent = Cardinality(SourceIds)
                 /\ \A id \in SourceIds :
                      /\ attempts[id][1] = 1
                      /\ lifelogs[id].webhook_last_updatedAt = 1
         /\ (tk.kind = "scan" /\ ~tk.afterBackfill) => tk.sent = 0

\* The first scan after the backfill of three records has returned with three
\* notifications sent.
C9_Witness ==
  /\ UnchangedSource
  /\ Cardinality(SourceIds) = 3
  /\ kv = "1"
  /\ tasks[1].kind = "scan" /\ tasks[1].afterBackfill /\ tasks[1].pc = "done"
  /\ tasks[1].sent = 3

\* The records on the pages a scan has fetched.
FetchedIds(tk) ==
  {id \in UNION {{remote.pages[p][k] : k \in 1..Len(remote.pages[p])} :
                   p \in {q \in 1..Len(remote.pages) : q <= tk.pages}} :
     IsStarredAtSource(id)}

\* A scan main() awaited has returned, the source has not changed since the
\* scan was entered and every remote call so far was answered.
QuietScanDone(tk) ==
  /\ tk.kind = "scan" /\ tk.awaited /\ tk.pc = "done"
  /\ tk.stable
  /\ nfail = 0

\* What a scan main() awaits sends carries the version it fetched.
PayloadIsFetchedVersion ==
  \A t \in Slots :
    (tasks[t].kind = "scan" /\ tasks[t].awaited /\ tasks[t].pc \in DispatchPcs)
      => /\ tasks[t].payload.lifelogId = Cur(tasks[t]).id
         /\ tasks[t].payload.updatedAt = Cur(tasks[t]).updatedAt

FetchStatuses == SourceStatuses \cup {204, 503}

\* r.ok
IsOk(status) == status >= 200 /\ status <= 299

\* A backoff that does not grow with the attempt.
RateLimitWaitFlat(i) == 1000 * 2

\* const wait = 1000 * (i+1) * 2
RateLimitWait(i) == 1000 * (i + 1) * 2

\* sleep(500 * (i+1))
ServerErrorWait(i) == 500 * (i + 1)

\* Every 4xx and 5xx answer is retried while attempts are left.
RetriedOnAnyError(status, i) == status >= 400 /\ i < FETCH_MAX_ATTEMPTS - 1

\* if (r.status >= 500 && i < max-1)
RetriedOn5xx(status, i) == status >= 500 /\ i < FETCH_MAX_ATTEMPTS - 1

\* const r = await fetch(url, opts) resolves; the if chain of the loop body
\* runs up to the sleep, the return or the throw.
FetchRequest ==
  /\ call.pc = "fetch"
  /\ LET status == call.responses[call.i + 1]
         asked == [call EXCEPT !.requests = @ + 1, !.status = status]
     IN call' =
          IF status = 429
          THEN [asked EXCEPT !.pc = "sleep", !.delays = Append(@, RateLimitWait(call.i))]
          ELSE IF IsOk(status) THEN [asked EXCEPT !.pc = "returned"]
          ELSE IF RetriedOn5xx(status, call.i)
          THEN [asked EXCEPT !.pc = "sleep", !.delays = Append(@, ServerErrorWait(call.i))]
          ELSE [asked EXCEPT !.pc = "thrown",
                             !.err = [kind |-> "HTTP", status |-> status]]
  /\ UNCHANGED <<engineVars, table, check>>

\* await sleep(wait) resolves; continue: i++, then the loop condition i < max,
\* and after the loop throw new Error('fetchWithRetry exhausted').
FetchSleep ==
  /\ call.pc = "sleep"
  /\ call' = IF call.i + 1 < FETCH_MAX_ATTEMPTS
             THEN [call EXCEPT !.i = @ + 1, !.pc = "fetch"]
             ELSE [call EXCEPT !.i = @ + 1, !.pc = "thrown",
                               !.err = [kind |-> "fetchWithRetry exhausted",
                                        status |-> NULL]]
  /\ UNCHANGED <<engineVars, table, check>>

\* One call of fetchWithRetry(url, opts) with max = 3, against every sequence
\* of answers the source can give to its requests.
FetchInit ==
  /\ remote = Recurring.remote /\ env = Recurring.env
  /\ InitCommon
  /\ \E resp \in [1..FETCH_MAX_ATTEMPTS -> FetchStatuses] :
       call = [NoCall EXCEPT !.pc = "fetch", !.responses = resp]
  /\ table = NoTable
  /\ check = NoCheck

FetchNext == FetchRequest \/ FetchSleep

FetchSpec == FetchInit /\ [][FetchNext]_vars

\* C14: when the source answers a page request with 429, 429 and then 200,
\* fetchWithRetry returns the third response and throws nothing, and the delay
\* before the third attempt is strictly longer than the one before the second:
\* 2000 ms times the attempt number.
C14_TwoRateLimitsThenSuccess ==
  call.responses = <<429, 429, 200>>
    => /\ call.pc # "thrown"
       /\ \A k \in 1..Len(call.delays) : call.delays[k] = 2000 * k
       /\ \A k \in 2..Len(call.delays) : call.delays[k] > call.delays[k - 1]
       /\ call.pc = "returned"
            => /\ call.requests = 3
               /\ call.status = 200
               /\ Len(call.delays) = 2

\* The call that was answered 429, 429, 200 has returned.
C14_Witness ==
  /\ call.responses = <<429, 429, 200>>
  /\ call.pc = "returned"
  /\ call.delays = <<2000, 4000>>

\* C15: whatever the source answers, one call of fetchWithRetry issues at most
\* FETCH_MAX_ATTEMPTS (3) requests and ends as the loop of the code computes
\* it; it goes on to another attempt only after a 429 or a 5xx, and any other
\* non-2xx status ends the call with an error after that request, no delay.
C15_AtMostThreeRequests ==
  /\ [](/\ call.requests <= FETCH_MAX_ATTEMPTS
        /\ call.pc = "fetch" => call.requests = call.i /\ call.i < FETCH_MAX_ATTEMPTS
        /\ call.pc = "returned" => fetchWithRetry(call.responses) = "ok"
        /\ call.pc = "thrown" => fetchWithRetry(call.responses) = call.err.kind)
  /\ [][call.pc = "fetch"
          => LET status == call.responses[call.i + 1]
             IN /\ call'.requests = call.requests + 1
                /\ call'.pc = "sleep" => status = 429 \/ status >= 500
                /\ (~IsOk(status) /\ status # 429 /\ status < 500)
                     => /\ call'.pc = "thrown"
                        /\ call'.err.status = status
                        /\ call'.delays = call.delays]_vars

\* A 404 on the second request, after a retried 500: the call has thrown
\* after two requests and one delay.
C15_Witness ==
  /\ call.pc = "thrown"
  /\ call.responses[1] = 500 /\ call.responses[2] = 404
  /\ call.requests = 2
  /\ Len(call.delays) = 1

\* C16: the error of a failed call tells its cause: attempts used up on 429,
\* attempts used up on 5xx, or another non-2xx status met at once; a call
\* that gave up on a 5xx answer never throws the kind of error (the
\* `HTTP <status> <body>` of line 141) that a 404 gets at once.
C16_ExhaustionOn5xxIsItsOwnKind ==
  (call.pc = "thrown" /\ call.status >= 500) => call.err.kind # "HTTP"

(* ------------- table lifelogs, SQL statement by SQL statement ---------- *)
\* title, markdown, startTime, endTime of a record of the source; the second
\* one has title: l.title ?? null.
Contents ==
  {[title |-> "t1", markdown |-> "m1", startTime |-> 1, endTime |-> 2],
   [title |-> "null", markdown |-> "m2", startTime |-> 1, endTime |-> 3]}

StoreIds == {1, 2}

\* The row the reconciler passes to upsertLifelog: lifelogToRow(l), content
\* columns included.
ReconcilerRows ==
  {[id |-> id, title |-> c.title, markdown |-> c.markdown,
    startTime |-> c.startTime, endTime |-> c.endTime,
    updatedAt |-> lifelogToRow([id |-> id, updatedAt |-> v, isStarred |-> st]).updatedAt,
    isStarred |-> lifelogToRow([id |-> id, updatedAt |-> v, isStarred |-> st]).isStarred,
    analysis_json |->
        lifelogToRow([id |-> id, updatedAt |-> v, isStarred |-> st]).analysis_json,
    webhook_last_updatedAt |->
        lifelogToRow([id |-> id, updatedAt |-> v, isStarred |-> st]).webhook_last_updatedAt,
    webhook_status |->
        lifelogToRow([id |-> id, updatedAt |-> v, isStarred |-> st]).webhook_status,
    webhook_sent_at |->
        lifelogToRow([id |-> id, updatedAt |-> v, isStarred |-> st]).webhook_sent_at] :
     id \in StoreIds, c \in Contents, v \in {1, 2}, st \in {TRUE}}

\* Rows a caller of upsertLifelog could pass with some of the four preserved
\* columns supplied.
SuppliedRows ==
  {[r EXCEPT !.analysis_json = "withSummary"] :
     r \in {x \in ReconcilerRows : x.id = 1 /\ x.updatedAt = 2 /\ x.title = "t1"}}
  \cup
  {[r EXCEPT !.webhook_last_updatedAt = 1, !.webhook_status = 200,
             !.webhook_sent_at = 1, !.isStarred = 0] :
     r \in {x \in ReconcilerRows : x.id = 1 /\ x.updatedAt = 1 /\ x.title = "null"}}

IncomingRows == ReconcilerRows \cup SuppliedRows

\* id TEXT PRIMARY KEY: the rows a statement's WHERE id=? / ON CONFLICT(id) meets.
RowsOf(rows, id) == {x \in rows : x.id = id}

\* The stored row of an id that has one.
RowOf(rows, id) == CHOOSE x \in rows : x.id = id

\* A plain INSERT of the row, whether or not the id is stored.
InsertAlways(rows, r, now) ==
  rows \cup {[id |-> r.id, title |-> r.title, markdown |-> r.markdown,
              startTime |-> r.startTime, endTime |-> r.endTime,
              updatedAt |-> r.updatedAt, isStarred |-> r.isStarred,
              analysis_json |-> r.analysis_json,
              webhook_last_updatedAt |-> r.webhook_last_updatedAt,
              webhook_status |-> r.webhook_status,
              webhook_sent_at |-> r.webhook_sent_at,
              inserted_at |-> now, last_seen_at |-> now]}

\* INSERT INTO lifelogs (...) VALUES (..., datetime('now'))
\* ON CONFLICT(id) DO UPDATE SET ... last_seen_at=datetime('now');
\* inserted_at is not in the column list: DEFAULT (datetime('now')) on insert.
InsertOrUpdate(rows, r, now) ==
  IF RowsOf(rows, r.id) = {}
  THEN rows \cup {[id |-> r.id, title |-> r.title, markdown |-> r.markdown,
                   startTime |-> r.startTime, endTime |-> r.endTime,
                   updatedAt |-> r.updatedAt, isStarred |-> r.isStarred,
                   analysis_json |-> r.analysis_json,
                   webhook_last_updatedAt |-> r.webhook_last_updatedAt,
                   webhook_status |-> r.webhook_status,
                   webhook_sent_at |-> r.webhook_sent_at,
                   inserted_at |-> now, last_seen_at |-> now]}
  ELSE {IF x.id # r.id THEN x
        ELSE [x EXCEPT
                !.title = r.title, !.markdown = r.markdown,
                !.startTime = r.startTime, !.endTime = r.endTime,
                !.updatedAt = r.updatedAt, !.isStarred = r.isStarred,
                !.analysis_json = COALESCE(r.analysis_json, x.analysis_json, NoAnalysis),
                !.webhook_last_updatedAt =
                    COALESCE(r.webhook_last_updatedAt, x.webhook_last_updatedAt, NULL),
                !.webhook_status = COALESCE(r.webhook_status, x.webhook_status, NULL),
                !.webhook_sent_at = COALESCE(r.webhook_sent_at, x.webhook_sent_at, NULL),
                !.last_seen_at = now] : x \in rows}

\* An UPDATE of last_seen_at that lost its WHERE clause.
TouchEveryRow(rows, id, now) == {[x EXCEPT !.last_seen_at = now] : x \in rows}

\* UPDATE lifelogs SET last_seen_at=datetime('now') WHERE id=?
TouchStatement(rows, id, now) ==
  {IF x.id = id THEN [x EXCEPT !.last_seen_at = now] ELSE x : x \in rows}

\* UPDATE lifelogs SET webhook_last_updatedAt=?, webhook_status=?,
\*   webhook_sent_at=datetime('now') WHERE id=?
MarkStatement(rows, updatedAt, status, id, now) ==
  {IF x.id = id THEN [x EXCEPT !.webhook_last_updatedAt = updatedAt,
                               !.webhook_status = status,
                               !.webhook_sent_at = now]
   ELSE x : x \in rows}

\* UPDATE lifelogs SET analysis_json=? WHERE id=?
SetAnalysisStatement(rows, analysisJson, id) ==
  {IF x.id = id THEN [x EXCEPT !.analysis_json = analysisJson] ELSE x : x \in rows}

\* The statement has run: datetime('now') was the clock, which moves on.
\* History: which statement it was, on which id, and whether it is the
\* upsert of the very row the statement before it upserted.
Ran(rows, op, id, r) ==
  [rows |-> rows, clock |-> table.clock + 1, op |-> op, id |-> id, r |-> r,
   again |-> op = "upsert" /\ table.op = "upsert" /\ table.r = r]

\* upsertLifelog(row) is called.
StoreUpsert ==
  /\ table.clock <= MaxStatements
  /\ \E r \in IncomingRows :
       table' = Ran(InsertOrUpdate(table.rows, r, table.clock), "upsert", r.id, r)
  /\ UNCHANGED <<engineVars, call, check>>

\* The touch of an unchanged record is run.
StoreTouch ==
  /\ table.clock <= MaxStatements
  /\ \E id \in StoreIds :
       table' = Ran(TouchStatement(table.rows, id, table.clock), "touch", id, NULL)
  /\ UNCHANGED <<engineVars, call, check>>

\* markWebhook(updatedAt, status, id) is called.
StoreMark ==
  /\ table.clock <= MaxStatements
  /\ \E id \in StoreIds : \E v \in {1, 2} : \E status \in SinkStatuses :
       table' = Ran(MarkStatement(table.rows, v, status, id, table.clock),
                    "mark", id, NULL)
  /\ UNCHANGED <<engineVars, call, check>>

\* setAnalysis(analysisJson, id) is called.
StoreSetAnalysis ==
  /\ table.clock <= MaxStatements
  /\ \E id \in StoreIds :
       table' = Ran(SetAnalysisStatement(table.rows, "noSummary", id),
                    "setAnalysis", id, NULL)
  /\ UNCHANGED <<engineVars, call, check>>

\* The statements of the store run in any order on an empty table.
StoreInit ==
  /\ remote = Recurring.remote /\ env = Recurring.env
  /\ InitCommon
  /\ call = NoCall
  /\ table = [NoTable EXCEPT !.clock = 1]
  /\ check = NoCheck

StoreNext == StoreUpsert \/ StoreTouch \/ StoreMark \/ StoreSetAnalysis

StoreSpec == StoreInit /\ [][StoreNext]_vars

\* A statement has just run (the clock has moved).
StatementRan(op) == table'.op = op /\ table'.clock = table.clock + 1

\* A row without lastSeenAt.
Content(x) == [f \in DOMAIN x \ {"last_seen_at"} |-> x[f]]

ContentOf(rows) == {Content(x) : x \in rows}

\* C17: upsert is idempotent: in every store state and for every record r,
\* upsert(r) applied twice leaves the same rows, last_seen_at aside, as applied
\* once, and the table has exactly one row for r.id.
C17_UpsertIdempotent ==
  /\ [](\A r \in IncomingRows :
          LET once == InsertOrUpdate(table.rows, r, table.clock)
              twice == InsertOrUpdate(once, r, table.clock + 1)
          IN /\ ContentOf(twice) = ContentOf(once)
             /\ Cardinality(RowsOf(once, r.id)) = 1
             /\ Cardinality(RowsOf(twice, r.id)) = 1)
  /\ [][(StatementRan("upsert") /\ table'.again)
          => /\ ContentOf(table'.rows) = ContentOf(table.rows)
             /\ Cardinality(RowsOf(table'.rows, table'.id)) = 1]_vars

\* The same row has just been upserted a second time, next to another record.
C17_Witness ==
  /\ table.op = "upsert" /\ table.again
  /\ Cardinality(table.rows) = 2
  /\ \E x \in RowsOf(table.rows, table.id) : x.last_seen_at > x.inserted_at

\* C18: the touch of an unchanged record changes only last_seen_at of that
\* record: its title, markdown, startTime, endTime, updatedAt, isStarred,
\* analysis_json, webhook_last_updatedAt, webhook_status, webhook_sent_at and
\* inserted_at, and every column of every other row, stay as they are.
C18_TouchChangesOnlyLastSeen ==
  [][StatementRan("touch")
       => /\ {x \in table'.rows : x.id # table'.id} = {x \in table.rows : x.id # table'.id}
          /\ ContentOf(RowsOf(table'.rows, table'.id))
               = ContentOf(RowsOf(table.rows, table'.id))
          /\ \A x \in RowsOf(table'.rows, table'.id) : x.last_seen_at = table.clock]_vars

\* A stored row has just been touched while another record is stored too.
C18_Witness ==
  /\ table.op = "touch"
  /\ Cardinality(table.rows) = 2
  /\ \E x \in RowsOf(table.rows, table.id) : x.last_seen_at > x.inserted_at

\* C19: upsert on a stored id overwrites title, markdown, startTime, endTime,
\* updatedAt and isStarred with the incoming values and keeps the stored
\* analysis_json, webhook_last_updatedAt, webhook_status and webhook_sent_at
\* whenever the incoming value is null; inserted_at is written by the first
\* insert only.  The rows of the reconciler (lifelogToRow) have null in all
\* four, so its update never clears the annotation or the bookkeeping.
C19_UpsertOverwritesAndPreserves ==
  /\ [](\A r \in ReconcilerRows :
          /\ r.analysis_json = NoAnalysis
          /\ r.webhook_last_updatedAt = NULL
          /\ r.webhook_status = NULL
          /\ r.webhook_sent_at = NULL)
  /\ [][StatementRan("upsert")
          => LET r == table'.r
                 new == RowOf(table'.rows, r.id)
             IN /\ new.title = r.title /\ new.markdown = r.markdown
                /\ new.startTime = r.startTime /\ new.endTime = r.endTime
                /\ new.updatedAt = r.updatedAt /\ new.isStarred = r.isStarred
                /\ IF RowsOf(table.rows, r.id) = {}
                   THEN /\ new.inserted_at = table.clock
                        /\ new.analysis_json = r.analysis_json
                        /\ new.webhook_last_updatedAt = r.webhook_last_updatedAt
                        /\ new.webhook_status = r.webhook_status
                        /\ new.webhook_sent_at = r.webhook_sent_at
                   ELSE LET old == RowOf(table.rows, r.id)
                        IN /\ new.inserted_at = old.inserted_at
                           /\ new.analysis_json =
                                IF r.analysis_json = NoAnalysis
                                THEN old.analysis_json ELSE r.analysis_json
                           /\ new.webhook_last_updatedAt =
                                IF r.webhook_last_updatedAt = NULL
                                THEN old.webhook_last_updatedAt
                                ELSE r.webhook_last_updatedAt
                           /\ new.webhook_status =
                                IF r.webhook_status = NULL
                                THEN old.webhook_status ELSE r.webhook_status
                           /\ new.webhook_sent_at =
                                IF r.webhook_sent_at = NULL
                                THEN old.webhook_sent_at ELSE r.webhook_sent_at
                           /\ r \in ReconcilerRows
                                => /\ new.analysis_json = old.analysis_json
                                   /\ new.webhook_last_updatedAt
                                        = old.webhook_last_updatedAt
                                   /\ new.webhook_status = old.webhook_status
                                   /\ new.webhook_sent_at = old.webhook_sent_at]_vars

\* A row notified at version 1 has just been updated to version 2 by a row of
\* the reconciler: the bookkeeping is still there.
C19_Witness ==
  /\ table.op = "upsert"
  /\ table.r \in ReconcilerRows
  /\ \E x \in RowsOf(table.rows, table.id) :
       /\ x.updatedAt = 2
       /\ x.webhook_last_updatedAt = 1 /\ x.webhook_status = 200
       /\ x.inserted_at < x.last_seen_at

\* C13: in recurring mode an error thrown inside a backfill or a scan, the
\* first scan after the start included, is caught and logged and the recurring
\* loop goes on: the process does not end, the timer still gets armed and ticks.
C13_RecurringLoopSurvivesErrors ==
  env.POLL_SECONDS > 0 => mainPc # "exited"

\* C20: the scoring service is invoked for a record only when its stored
\* annotation is absent; a stored annotation is never written again, overwritten
\* or cleared by a later run, whatever happens to the record at the source; so
\* every record gets at most one successful annotation.
C20_AnnotatedAtMostOnce ==
  [][/\ \A id \in Ids :
          (lifelogs[id].present /\ lifelogs[id].analysis_json # NoAnalysis)
            => lifelogs'[id].analysis_json = lifelogs[id].analysis_json
     /\ \A t \in Slots :
          (/\ tasks[t].pc \in {"callOpenAI", "setAnalysis"}
           /\ tasks'[t].pc # tasks[t].pc
           /\ mainPc' = mainPc)
            => lifelogs[Cur(tasks[t]).id].analysis_json = NoAnalysis]_vars

(* ------------------ repeated scans with no failure at all --------------- *)
\* The watcher in recurring mode on a source of four pages, whose backfill
\* does not notify, and on a source of one page whose record is edited once.
RecurringDeep ==
  [remote |-> Remote(<< <<1>>, <<2>>, <<3>>, <<4>> >>, FALSE, {}, {1}),
   env |-> Env(120, FALSE, TRUE, 4)]

RecurringShallow ==
  [remote |-> Remote(<< <<1>> >>, FALSE, {1}, {}), env |-> Env(120, FALSE, FALSE, 4)]

\* A source that answers every request with a cursor: one record, then empty
\* pages for ever; the scans are limited to one page.
RecurringEndless ==
  [remote |-> Remote(<< <<1>> >>, TRUE, {}, {}), env |-> Env(120, FALSE, FALSE, 1)]

LiveDeployments == {RecurringDeep, RecurringShallow, RecurringEndless}

\* Every remote call is answered: the failures the model allows are used up.
LiveInitOf(deployments) ==
  /\ \E d \in deployments : remote = d.remote /\ env = d.env
  /\ lifelogs = [id \in Ids |-> NoRow]
  /\ kv = ""
  /\ mainPc = "start"
  /\ tasks = [t \in Slots |-> Idle]
  /\ nfail = MaxFailures
  /\ attempts = [id \in Ids |-> [v \in Versions |-> 0]]
  /\ answers = [id \in Ids |-> [v \in Versions |-> 0]]
  /\ call = NoCall
  /\ table = NoTable
  /\ check = NoCheck

LiveInit == LiveInitOf(LiveDeployments)

\* main() up to setInterval.
MainStep == MainStart \/ MainAfterBackfill \/ MainAfterScan

LiveNext ==
  \/ MainStart
  \/ MainAfterBackfill
  \/ MainAfterScan
  \/ Tick
  \/ SourceUpdate
  \/ \E t \in Slots : TaskStep(t)

\* The event loop runs every continuation that is ready, and the interval
\* timer keeps firing; the source is edited whenever it pleases.
LiveSpec ==
  /\ LiveInit
  /\ [][LiveNext]_vars
  /\ WF_vars(MainStep)
  /\ WF_vars(Tick)
  /\ \A t \in Slots : WF_vars(TaskStep(t))

\* C11: once the source has stopped changing and scans are repeated with no
\* failure, every stored record whose webhook_last_updatedAt differs from its
\* updatedAt (a record stored by a backfill that did not notify included) is
\* eventually notified and gets webhook_last_updatedAt = updatedAt, wherever
\* it sits in the page order of the source.
C11_EveryStoredRecordEventuallyNotified ==
  \A id \in Ids :
    (lifelogs[id].present /\ lifelogs[id].webhook_last_updatedAt # lifelogs[id].updatedAt)
      ~> (lifelogs[id].webhook_last_updatedAt = lifelogs[id].updatedAt)

\* What a scan does to a record it does not classify unchanged.
ChangePcs == {"upsertLifelog", "callOpenAI", "setAnalysis"} \cup DispatchPcs

\* Every record the scans are at is classified unchanged: touch only.
TouchOnly ==
  \A t \in Slots : tasks[t].kind = "scan" => tasks[t].pc \notin ChangePcs

\* incrementalScan of slot t returns in this step.
ScanReturns(t) ==
  /\ tasks[t].kind = "scan"
  /\ Running(tasks[t])
  /\ ~Running(tasks'[t])

StepsFrom(t, pc) ==
  /\ tasks[t].pc = pc
  /\ tasks'[t].pc # pc
  /\ mainPc' = mainPc

\* The row differs from the fetched record in updatedAt or in the starred flag.
Differs(existing, l) ==
  \/ existing.updatedAt # l.updatedAt
  \/ existing.isStarred # (IF l.isStarred THEN 1 ELSE 0)

\* C21: for each fetched record the reconciler does exactly one of: an upsert
\* that inserts when no row has its id; an upsert that updates when a row
\* exists and differs in updatedAt or in the starred flag; a touch when a row
\* exists with the same updatedAt and starred flag.  fullBackfill and
\* incrementalScan apply the same rule.
C21_InsertUpdateOrTouch ==
  [][\A t \in Slots :
       LET l == Cur(tasks[t])
           existing == lifelogs[l.id]
       IN /\ StepsFrom(t, "existing")
               => /\ tasks[t].kind \in {"backfill", "scan"}
                  /\ tasks'[t].pc =
                       IF ~existing.present \/ Differs(existing, l)
                       THEN "upsertLifelog" ELSE "touch"
                  /\ lifelogs' = lifelogs
          /\ StepsFrom(t, "upsertLifelog")
               => /\ tasks'[t].pc = "current"
                  /\ lifelogs'[l.id].present
                  /\ lifelogs'[l.id].updatedAt = l.updatedAt
                  /\ lifelogs'[l.id].isStarred = (IF l.isStarred THEN 1 ELSE 0)
                  /\ \A id \in Ids \ {l.id} : lifelogs'[id] = lifelogs[id]
          /\ StepsFrom(t, "touch")
               => /\ tasks'[t].pc = "current"
                  /\ lifelogs' = lifelogs]_vars

\* A full backfill is about to update a row that differs from the fetched
\* record in the starred flag only.
C21_Witness ==
  \E t \in Slots :
    /\ tasks[t].kind = "backfill"
    /\ tasks[t].pc = "upsertLifelog"
    /\ LET l == Cur(tasks[t])
       IN /\ lifelogs[l.id].present
          /\ lifelogs[l.id].updatedAt = l.updatedAt
          /\ lifelogs[l.id].isStarred # (IF l.isStarred THEN 1 ELSE 0)

\* The record the task is at was classified "update" although its updatedAt
\* never changes at the source: the row differed in the starred flag only.
FlagOnlyUpdate(tk) ==
  /\ tk.kind \in {"backfill", "scan"}
  /\ tk.reconciled = "update"
  /\ remote.lastVersion[Cur(tk).id] = 1

\* C27: when a fetched record differs from its row in the starred flag only
\* (same updatedAt) and that updatedAt was already notified, the run stores the
\* new flag by an upsert, sends no notification, and webhook_last_updatedAt,
\* webhook_status and webhook_sent_at stay as they were.
C27_FlagChangeIsNotNotified ==
  /\ [](\A t \in Slots :
          (FlagOnlyUpdate(tasks[t]) /\ tasks[t].pc \in DispatchPcs)
            => lifelogs[Cur(tasks[t]).id].webhook_last_updatedAt
                 # lifelogs[Cur(tasks[t]).id].updatedAt)
  /\ [][\A t \in Slots :
          (FlagOnlyUpdate(tasks[t]) /\ StepsFrom(t, "upsertLifelog"))
            => LET l == Cur(tasks[t])
               IN /\ lifelogs'[l.id].isStarred = (IF l.isStarred THEN 1 ELSE 0)
                  /\ lifelogs'[l.id].updatedAt = lifelogs[l.id].updatedAt
                  /\ NotifiedFields(lifelogs'[l.id]) = NotifiedFields(lifelogs[l.id])
                  /\ attempts' = attempts /\ answers' = answers]_vars

\* A scan has stored the changed flag of a record notified at its version and
\* is about to decide on the dispatch.
C27_Witness ==
  \E t \in Slots :
    /\ FlagOnlyUpdate(tasks[t])
    /\ tasks[t].kind = "scan"
    /\ tasks[t].pc = "c2"
    /\ LET l == Cur(tasks[t])
       IN /\ lifelogs[l.id].isStarred = (IF l.isStarred THEN 1 ELSE 0)
          /\ lifelogs[l.id].updatedAt = l.updatedAt
          /\ lifelogs[l.id].webhook_last_updatedAt = l.updatedAt
          /\ attempts[l.id][l.updatedAt] = 1

(* -------------- the end of a page of incrementalScan, alone ------------- *)
\* pageStarred(cursor, 10): a page holds at most 10 records.
PAGE_LIMIT == 10
PageLengths == {1, 4, 5, PAGE_LIMIT}
\* Which page of the scan has just been processed.
CheckedPages == 1..4

\* What findById returns for a record of the page and the record as fetched:
\* a row up to date, or one that fails one condition of the heuristic.
RowKinds == {"upToDate", "otherVersion", "notNotified", "notAnnotated", "noRow"}

KindOf(kind) ==
  LET l == [id |-> 1, updatedAt |-> 2, isStarred |-> TRUE]
      done == [lifelogToRow(l) EXCEPT !.analysis_json = "noSummary",
                                      !.webhook_last_updatedAt = 2,
                                      !.webhook_status = 200,
                                      !.webhook_sent_at = Now]
  IN [l |-> l,
      r |-> CASE kind = "upToDate" -> done
              [] kind = "otherVersion" ->
                   [done EXCEPT !.updatedAt = 1, !.webhook_last_updatedAt = 1]
              [] kind = "notNotified" -> [done EXCEPT !.webhook_last_updatedAt = 1]
              [] kind = "notAnnotated" -> [done EXCEPT !.analysis_json = NoAnalysis]
              [] OTHER -> NoRow]

\* A page of `length` records of which the first `good` are up to date and
\* the others of kind `bad`.
PageOf(length, good, bad) ==
  [k \in 1..length |-> IF k <= good THEN KindOf("upToDate") ELSE KindOf(bad)]

\* upToDate.filter(Boolean).length, on the rows findById returns.
CheckCount(page) == Cardinality({k \in 1..Len(page) : UpToDate(page[k].r, page[k].l)})

\* The for loop of the page is over: if (pages >= 3) the heuristic is
\* evaluated, else if (!cursor) break; else back to while (pages < maxPages).
CheckAfterHeuristic(c) ==
  IF c.cursor = NULL THEN [c EXCEPT !.pc = "cursorEnd"]
  ELSE IF c.pages < c.maxPages THEN [c EXCEPT !.pc = "fetch", !.pages = @ + 1]
  ELSE [c EXCEPT !.pc = "pageLimit"]

CheckPageEnd ==
  /\ check.pc = "pageEnd"
  /\ check' = IF HeuristicApplies(check.pages)
              THEN [check EXCEPT !.pc = "upToDate"]
              ELSE CheckAfterHeuristic(check)
  /\ UNCHANGED <<engineVars, call, table>>

\* if (upToDateCount / lifelogs.length >= 0.8) break;  if (!cursor) break;
CheckEarlyStop ==
  /\ check.pc = "upToDate"
  /\ check' = IF EarlyStopFires(CheckCount(check.page), Len(check.page))
              THEN [check EXCEPT !.pc = "earlyStop"]
              ELSE CheckAfterHeuristic(check)
  /\ UNCHANGED <<engineVars, call, table>>

HeuristicInit ==
  /\ remote = Recurring.remote /\ env = Recurring.env
  /\ InitCommon
  /\ call = NoCall
  /\ table = NoTable
  /\ \E pages \in CheckedPages, length \in PageLengths, cursor \in {NULL, 5},
        maxPages \in {4, 25}, bad \in RowKinds \ {"upToDate"} :
       \E good \in 0..length :
         check = [pc |-> "pageEnd", pages |-> pages, cursor |-> cursor,
                  maxPages |-> maxPages, page |-> PageOf(length, good, bad)]

HeuristicNext == CheckPageEnd \/ CheckEarlyStop

HeuristicSpec == HeuristicInit /\ [][HeuristicNext]_vars

\* The records of the page that are up to date as the claim has it: stored
\* updatedAt equal to the fetched one, notified at that updatedAt, annotated.
FullyUpToDate(page) ==
  {k \in 1..Len(page) :
     /\ page[k].r.present
     /\ page[k].r.updatedAt = page[k].l.updatedAt
     /\ page[k].r.webhook_last_updatedAt = page[k].r.updatedAt
     /\ page[k].r.analysis_json # NoAnalysis}

\* At least 80% of the page.
EightyPercent(page) == 100 * Cardinality(FullyUpToDate(page)) >= 80 * Len(page)

\* C22: an incremental scan stops early after page p only if p >= 3 and at
\* least 80% of the page's records are up to date; whenever both hold after a
\* page, exactly 80% included, no further page is fetched; after pages 1 and 2
\* the heuristic never stops the scan.
C22_EarlyStopRule ==
  /\ check.pc = "earlyStop" => (check.pages >= 3 /\ EightyPercent(check.page))
  /\ check.pc \in {"fetch", "cursorEnd", "pageLimit"}
       => ~(check.pages - (IF check.pc = "fetch" THEN 1 ELSE 0) >= 3
            /\ EightyPercent(check.page))
  /\ check.pc = "upToDate" => check.pages >= 3

\* The scan has stopped after its third page, of whose five records exactly
\* four were up to date, with a cursor for a further page in hand.
C22_Witness ==
  /\ check.pc = "earlyStop"
  /\ check.pages = 3
  /\ Len(check.page) = 5
  /\ Cardinality(FullyUpToDate(check.page)) = 4
  /\ check.cursor # NULL

(* ------------- overlapping scans of a source that is edited ------------- *)
\* The four-page source with the record of its third page edited.
RecurringDeepEdited ==
  [remote |-> Remote(<< <<1>>, <<2>>, <<3>>, <<4>> >>, FALSE, {3}, {1}),
   env |-> Env(120, FALSE, TRUE, 4)]

\* The watcher on that source, every remote call answered.
OverlapInit == LiveInitOf({RecurringDeepEdited})

OverlapSpec == OverlapInit /\ [][LiveNext]_vars

\* Every record of the page the scan has processed has an annotation stored.
PageAnnotated(tk) ==
  \A k \in 1..Len(tk.lifelogs) : findById(tk.lifelogs[k].id).analysis_json # NoAnalysis

\* C26: the early-stop check runs after the page's records were reconciled and
\* dispatched, so in a scan whose fetched records all end with an annotation
\* and whose primary sends were all answered, the check after page 3 finds the
\* whole page up to date and the scan returns: it never fetches a 4th page,
\* whatever MAX_PAGES_PER_RUN is and whatever was new or changed on the pages.
C26_NoFourthPage ==
  [][\A t \in Slots :
       (/\ tasks[t].kind = "scan"
        /\ StepsFrom(t, "upToDate")
        /\ tasks[t].pages = EARLY_STOP_MIN_PAGES
        /\ PageAnnotated(tasks[t]))
         => /\ UpToDateCount(tasks[t].lifelogs) = Len(tasks[t].lifelogs)
            /\ ~Running(tasks'[t])]_vars

\* C23: every run ends after bounded work, also on a source that returns a
\* non-null cursor for ever: an incremental scan fetches at most
\* MAX_PAGES_PER_RUN pages, a full backfill at most 1000, neither fetches
\* another page after a response whose nextCursor is null, and every run that
\* was started returns.
C23_BoundedRuns ==
  /\ [](\A t \in Slots :
          /\ tasks[t].kind = "scan" => tasks[t].pages <= env.MAX_PAGES_PER_RUN
          /\ tasks[t].kind = "backfill" => tasks[t].pages <= BACKFILL_PAGE_CEILING)
  /\ [][\A t \in Slots :
          (/\ Running(tasks[t])
           /\ tasks'[t].kind = tasks[t].kind
           /\ tasks'[t].pages = tasks[t].pages + 1)
            => tasks'[t].cursor # NULL]_vars
  /\ \A t \in Slots : Running(tasks[t]) ~> ~Running(tasks[t])

\* The backfill has read its 1000th page from a source that still hands out a
\* cursor, and leaves its loop.
C23_Witness ==
  /\ remote.endless
  /\ tasks[1].kind = "backfill"
  /\ tasks[1].pages = BACKFILL_PAGE_CEILING
  /\ tasks[1].cursor # NULL
  /\ tasks[1].pc = "kvSet"

\* The scoring call of the task in slot t fails in this step.
ScoringFails(t) ==
  /\ StepsFrom(t, "callOpenAI")
  /\ nfail' = nfail + 1

\* C24: a failure of the scoring service for one record is swallowed: the run
\* goes on with the dispatch step of that record and with the records after it
\* on the page; the failure leaves the annotation absent and changes no other
\* field of the row; and a run that later fetches the record, its annotation
\* still absent, calls the scoring service for it again.
C24_ScoringFailureIsSwallowed ==
  [][\A t \in Slots :
       /\ ScoringFails(t)
            => /\ lifelogs' = lifelogs
               /\ tasks'[t].pc # "failed"
               /\ tasks'[t].kind = tasks[t].kind
               /\ (tasks[t].kind = "scan" \/ env.BACKFILL_SEND_WEBHOOK)
                    => /\ tasks'[t].pc = "c2"
                       /\ tasks'[t].lifelogs = tasks[t].lifelogs
                       /\ tasks'[t].idx = tasks[t].idx
               /\ (tasks[t].kind = "backfill" /\ ~env.BACKFILL_SEND_WEBHOOK
                     /\ tasks[t].idx < Len(tasks[t].lifelogs))
                    => /\ tasks'[t].pc = "existing"
                       /\ tasks'[t].lifelogs = tasks[t].lifelogs
                       /\ tasks'[t].idx = tasks[t].idx + 1
       /\ (StepsFrom(t, "current")
             /\ findById(Cur(tasks[t]).id).analysis_json = NoAnalysis)
            => tasks'[t].pc = "callOpenAI"]_vars

\* The scoring call for a record has failed and the run is at the dispatch
\* decision of that record, its annotation absent, with a record after it on
\* the page.
C24_Witness ==
  \E t \in Slots :
    /\ tasks[t].pc = "c2"
    /\ tasks[t].caught = "OpenAI sentiment failed"
    /\ tasks[t].idx < Len(tasks[t].lifelogs)
    /\ findById(Cur(tasks[t]).id).present
    /\ findById(Cur(tasks[t]).id).analysis_json = NoAnalysis

\* C25: a failure on the secondary path (the summarisation call, or the send
\* to the secondary sink, a failure at network level included) is caught:
\* markWebhook is still run for the record with the outcome of the primary
\* send, and the run goes on with the next record.
C25_SecondaryFailureIsCaught ==
  /\ [](\A t \in Slots :
          tasks[t].caught = "Second webhook failed"
            => /\ tasks[t].pc = "markWebhook"
               /\ tasks[t].status \in SinkStatuses)
  /\ [][\A t \in Slots :
          LET tk == tasks[t]
          IN /\ StepsFrom(t, "createChatGPTSummary")
                  => /\ tasks'[t].pc \in {"postWebhook2", "markWebhook"}
                     /\ tasks'[t].status = tk.status
                     /\ tasks'[t].c2 = tk.c2
             /\ StepsFrom(t, "postWebhook2")
                  => /\ tasks'[t].pc = "markWebhook"
                     /\ tasks'[t].status = tk.status
                     /\ tasks'[t].c2 = tk.c2
             /\ StepsFrom(t, "markWebhook")
                  => /\ lifelogs[tk.c2.id].present
                       => /\ lifelogs'[tk.c2.id].webhook_last_updatedAt = tk.c2.updatedAt
                          /\ lifelogs'[tk.c2.id].webhook_status = tk.status
                     /\ tasks'[t].pc # "failed"
                     /\ tk.idx < Len(tk.lifelogs)
                          => /\ tasks'[t].pc = "existing"
                             /\ tasks'[t].idx = tk.idx + 1]_vars

\* The send to the secondary sink has failed for the first record of a page
\* and the run is about to mark the record with the primary sink's status.
C25_Witness ==
  \E t \in Slots :
    /\ tasks[t].caught = "Second webhook failed"
    /\ tasks[t].pc = "markWebhook"
    /\ tasks[t].status \in SinkStatuses
    /\ tasks[t].idx < Len(tasks[t].lifelogs)

\* The task is sending, or has sent and not yet marked, a primary payload for
\* version v of record id whose analysis is null / is not null.
SendsNull(tk, id, v) ==
  /\ tk.pc \in DispatchPcs
  /\ tk.payload.lifelogId = id /\ tk.payload.updatedAt = v
  /\ tk.payload.analysis = NoAnalysis

SendsAnnotated(tk, id, v) ==
  /\ tk.pc \in DispatchPcs
  /\ tk.payload.lifelogId = id /\ tk.payload.updatedAt = v
  /\ tk.payload.analysis # NoAnalysis

\* C28: within the processing of one record the annotation attempt comes
\* before the dispatch decision, so a primary payload carries a null analysis
\* only if the scoring call for that record failed in the same pass; that
\* version is then still marked notified, so that no payload with an
\* annotation obtained by another run is delivered for that version.
C28_NullPayloadIsFinalForItsVersion ==
  /\ [](\A t \in Slots :
          (tasks[t].pc \in DispatchPcs /\ tasks[t].payload.analysis = NoAnalysis)
            => tasks[t].caught = "OpenAI sentiment failed")
  /\ [](\A a \in Slots, b \in Slots, id \in Ids, v \in Versions :
          ~(SendsNull(tasks[a], id, v) /\ SendsAnnotated(tasks[b], id, v)))
  /\ [][\A t \in Slots :
          /\ (StepsFrom(t, "c2") /\ tasks'[t].pc = "postWebhook")
               => tasks'[t].payload.analysis = findById(Cur(tasks[t]).id).analysis_json
          /\ (tasks[t].pc # "c2" /\ tasks'[t].pc = "c2")
               => tasks[t].pc \in SentimentPcs
          /\ (StepsFrom(t, "postWebhook") /\ tasks[t].payload.analysis = NoAnalysis)
               => tasks'[t].pc = "markWebhook"]_vars

====
